---- MODULE Spec2Model ----
(***************************************************************************)
(* GradientManager (src/svg/helper/GradientManager.js): SVG gradient       *)
(* descriptors and the <linearGradient>/<radialGradient> nodes kept for    *)
(* them inside <defs>.                                                     *)
(*                                                                         *)
(* The operations of GradientManager are pure operators on a state record  *)
(* S (S.gradients, S.doms, S.defs, S.used, S.nextId, S.attrs, and S.logs   *)
(* for the diagnostics written); an action applies one operation to the    *)
(* current state.  A claim about an operation is stated, for every         *)
(* reachable state, about the state the operation yields from it.          *)
(* Definable, the base class, is not in the source tree: its primitives    *)
(* are modelled from the capability contract of the specification.         *)
(***************************************************************************)
EXTENDS Integers, Sequences, FiniteSets, TLC

\* ---------------------------------------------------------------- bounds
MaxDoms  == 2        \* gradient nodes ever created by createElement

\* ---------------------------------------------------------------- values
Gradients == {1, 2}                  \* gradient descriptor instances
Elements  == {1, 2}                  \* displayables, each with its svgElement
Slots     == <<"fill", "stroke">>    \* zrUtil.each(['fill', 'stroke'], ...)
SlotNames == {"fill", "stroke"}
NoDom     == 0                       \* gradient._dom undefined / add returned null
NoId      == -1                      \* gradient.id undefined
Unset     == -1                      \* a numeric attribute never set
FirstIds  == {0, 1}                  \* start of the registry's id counter

\* 'zr-gradient-' + gradient.id, and the value never set
GradientName(id) == <<"zr-gradient-", id>>
NoName == <<>>
\* 'url(#' + id + ')', and the attribute never set
Url(name) == <<"url(#", name, ")">>
NoAttr == <<>>

\* Geometry is in hundredths (50 is 0.5); offsets of colour stops too.
\* The contents the application gives a descriptor: the linear gradient of
\* the kind-switch scenario, a second linear one (global, other geometry,
\* unsorted stops), a radial one and one of an illegal type.
LinearA ==
    [type |-> "linear", x |-> 0, y |-> 0, x2 |-> 100, y2 |-> 10, r |-> 40,
     global |-> FALSE,
     colorStops |-> << [offset |-> 0, color |-> "#000"],
                       [offset |-> 100, color |-> "#fff"] >>]
LinearB ==
    [type |-> "linear", x |-> 20, y |-> 30, x2 |-> 70, y2 |-> 80, r |-> 40,
     global |-> TRUE,
     colorStops |-> << [offset |-> 100, color |-> "#fff"],
                       [offset |-> 50, color |-> "#f00"],
                       [offset |-> 0, color |-> "#000"] >>]
RadialC ==
    [type |-> "radial", x |-> 50, y |-> 60, x2 |-> 100, y2 |-> 10, r |-> 30,
     global |-> TRUE,
     colorStops |-> << [offset |-> 7, color |-> "#0f0"] >>]
ConicD ==
    [type |-> "conic", x |-> 50, y |-> 60, x2 |-> 100, y2 |-> 10, r |-> 30,
     global |-> FALSE,
     colorStops |-> << [offset |-> 0, color |-> "#000"],
                       [offset |-> 100, color |-> "#fff"] >>]
Contents == {LinearA, LinearB, RadialC, ConicD}
\* Descriptor 1 is edited in place by the application; the others keep the
\* content they start with.
Editable == {1}
InitialContent(g) == IF g = 1 THEN LinearA ELSE RadialC

\* a descriptor: its content, gradient.id and gradient._dom
Descriptor(c, id, dom) ==
    [type |-> c.type, x |-> c.x, y |-> c.y, x2 |-> c.x2, y2 |-> c.y2, r |-> c.r,
     global |-> c.global, colorStops |-> c.colorStops, id |-> id, _dom |-> dom]

\* displayable.style: the descriptor each paint slot holds.  Descriptor 1 is
\* shared by the fill and the stroke of element 1 and by element 2.
Style == [e \in Elements |-> IF e = 1 THEN [fill |-> 1, stroke |-> 1]
                                       ELSE [fill |-> 1, stroke |-> 2]]

VARIABLES gradients, doms, defs, used, nextId, attrs

vars == <<gradients, doms, defs, used, nextId, attrs>>

\* The program state the operations work on.  S.logs is the output of an
\* operation, the number of diagnostics it wrote with zrLog, and no state.
Cur == [gradients |-> gradients, doms |-> doms, defs |-> defs, used |-> used,
        nextId |-> nextId, attrs |-> attrs, logs |-> 0]

\* ------------------------------------------------------ Definable (base)
\* createElement(tag): a fresh detached node; owner records for which
\* descriptor add() asked for it (bookkeeping of the model only).
createElement(S, tag, g) ==
    [S EXCEPT !.doms = Append(@,
        [tagName |-> tag, id |-> NoName,
         x1 |-> Unset, y1 |-> Unset, x2 |-> Unset, y2 |-> Unset,
         cx |-> Unset, cy |-> Unset, r |-> Unset,
         gradientUnits |-> "", children |-> <<>>, owner |-> g])]

\* the children of <defs>, in document order, as a set
Attached(S) == {S.defs[i] : i \in 1..Len(S.defs)}

Without(seq, d) == SelectSeq(seq, LAMBDA x : x # d)

\* defs.contains(dom)
contains(S, d) == d \in Attached(S)

\* addDom(dom): getDefs(true).appendChild(dom); a node that is already a
\* child moves to the end
addDom(S, d) == [S EXCEPT !.defs = Append(Without(@, d), d)]

\* removeDom(element): getDefs(false).removeChild(element._dom)
removeDom(S, g) == [S EXCEPT !.defs = Without(@, S.gradients[g]._dom)]

\* Definable.prototype.markUsed(dom)
markDomUsed(S, d) == IF d # NoDom THEN [S EXCEPT !.used = @ \cup {d}] ELSE S

\* markAllUnused(): a new cycle starts with an empty used set
markAllUnused(S) == [S EXCEPT !.used = {}]

\* removeUnused(): every node in <defs> not marked used is removed
removeUnused(S) == [S EXCEPT !.defs = SelectSeq(@, LAMBDA x : x \in S.used)]

\* zrLog('Illegal gradient type.')
zrLog(S) == [S EXCEPT !.logs = @ + 1]

\* ------------------------------------------------------- GradientManager
IsGradientType(t) == t = "linear" \/ t = "radial"

\* one <stop> child: offset * 100 + '%' and the colour verbatim
StopElement(c) == [offset |-> <<c.offset * 100, "%">>, stopColor |-> c.color]

RECURSIVE AppendStops(_, _, _)
\* for (i = 0; i < len; ++i) dom.appendChild(stop)
AppendStops(children, colors, i) ==
    IF i > Len(colors) THEN children
    ELSE AppendStops(Append(children, StopElement(colors[i])), colors, i + 1)

\* Mutant: the stops of the previous sync are not removed.
ClearChildren_Keep(dom) == dom

\* dom.innerHTML = ''
ClearChildren(dom) == [dom EXCEPT !.children = <<>>]

SetGeometry(dom, gr) ==
    IF gr.type = "linear"
    THEN [dom EXCEPT !.x1 = gr.x, !.y1 = gr.y, !.x2 = gr.x2, !.y2 = gr.y2]
    ELSE [dom EXCEPT !.cx = gr.x, !.cy = gr.y, !.r = gr.r]

\* Mutant: gradientUnits is written once and kept by later syncs.
SetGradientUnits_Once(dom, gr) ==
    IF dom.gradientUnits # "" THEN dom
    ELSE [dom EXCEPT !.gradientUnits =
             IF gr.global THEN "userSpaceOnUse" ELSE "objectBoundingBox"]

SetGradientUnits(dom, gr) ==
    [dom EXCEPT !.gradientUnits =
        IF gr.global THEN "userSpaceOnUse" ELSE "objectBoundingBox"]

\* Mutant: the stops are removed and the node stored before the type is
\* looked at.
updateDom_ClearFirst(S, g, d) ==
    LET gr == S.gradients[g]
        S0 == [S EXCEPT !.doms[d] = ClearChildren(@), !.gradients[g]._dom = d]
    IN
    IF ~IsGradientType(gr.type) THEN zrLog(S0)
    ELSE LET dom1 == SetGeometry(S0.doms[d], gr)
             dom2 == SetGradientUnits(dom1, gr)
             dom4 == [dom2 EXCEPT !.children = AppendStops(@, gr.colorStops, 1)]
         IN  [S0 EXCEPT !.doms[d] = dom4]

updateDom(S, g, d) ==
    LET gr == S.gradients[g] IN
    IF ~IsGradientType(gr.type) THEN zrLog(S)
    ELSE LET dom1 == SetGeometry(S.doms[d], gr)
             dom2 == SetGradientUnits(dom1, gr)
             dom3 == ClearChildren(dom2)
             dom4 == [dom3 EXCEPT !.children = AppendStops(@, gr.colorStops, 1)]
         IN  [S EXCEPT !.doms[d] = dom4, !.gradients[g]._dom = d]

\* gradient.id = gradient.id || this.nextId++   (undefined and 0 are falsy)
Falsy(id) == id = NoId \/ id = 0
\* Mutant: an id is allocated on every add.
AssignId_Always(S, g) ==
    [S EXCEPT !.gradients[g].id = S.nextId, !.nextId = @ + 1]

AssignId(S, g) ==
    IF Falsy(S.gradients[g].id)
    THEN [S EXCEPT !.gradients[g].id = S.nextId, !.nextId = @ + 1]
    ELSE S

TagOf(t) == IF t = "linear" THEN "linearGradient" ELSE "radialGradient"

\* add(gradient): [st |-> the state afterwards, dom |-> the value returned]
add(S, g) ==
    LET gr == S.gradients[g] IN
    IF ~IsGradientType(gr.type) THEN [st |-> zrLog(S), dom |-> NoDom]
    ELSE LET S1 == createElement(S, TagOf(gr.type), g)
             d  == Len(S1.doms)
             S2 == AssignId(S1, g)
             S3 == [S2 EXCEPT !.doms[d].id = GradientName(S2.gradients[g].id)]
             S4 == updateDom(S3, g, d)
             S5 == addDom(S4, d)
         IN  [st |-> S5, dom |-> d]

TypeMatchesTag(type, tagName) ==
    \/ type = "linear" /\ tagName = "linearGradient"
    \/ type = "radial" /\ tagName = "radialGradient"

\* Mutant: a changed type re-creates the node without removing the old one.
onUpdate_NoRemove(S, g) ==
    LET gr == S.gradients[g] IN
    IF TypeMatchesTag(gr.type, S.doms[gr._dom].tagName)
    THEN updateDom(S, g, gr._dom)
    ELSE add(S, g).st

\* Mutant: the node is removed and re-created whatever its tag.
onUpdate_Recreate(S, g) == add(removeDom(S, g), g).st

\* the callback update() hands to Definable.prototype.update
onUpdate(S, g) ==
    LET gr == S.gradients[g] IN
    IF TypeMatchesTag(gr.type, S.doms[gr._dom].tagName)
    THEN updateDom(S, g, gr._dom)
    ELSE add(removeDom(S, g), g).st

\* Definable.prototype.update(element, onUpdate)
definableUpdate(S, g) ==
    LET gr == S.gradients[g] IN
    IF gr._dom # NoDom /\ contains(S, gr._dom)
    THEN onUpdate(S, g)
    ELSE LET res == add(S, g) IN
         IF res.dom # NoDom
         THEN [res.st EXCEPT !.gradients[g]._dom = res.dom]
         ELSE res.st

update(S, g) == definableUpdate(S, g)

\* markUsed(displayable): the nodes of style.fill and style.stroke
SlotDom(S, e, slot) == S.gradients[Style[e][slot]]._dom

\* Mutant: only the node of style.fill is marked.
markUsed_FillOnly(S, e) == markDomUsed(S, SlotDom(S, e, "fill"))

markUsed(S, e) ==
    markDomUsed(markDomUsed(S, SlotDom(S, e, "fill")), SlotDom(S, e, "stroke"))

\* Mutant: a slot whose descriptor has a node is bound whatever its type.
IsGradientSlot_OrBound(S, e, slot) ==
    \/ IsGradientType(S.gradients[Style[e][slot]].type)
    \/ S.gradients[Style[e][slot]]._dom # NoDom

\* style[fillOrStroke] && (type === 'linear' || type === 'radial'); every
\* slot of Style holds a descriptor
IsGradientSlot(S, e, slot) == IsGradientType(S.gradients[Style[e][slot]].type)

\* Mutant: the existing node is ignored, a node is created on every call.
ResolveDom_AlwaysAdd(S, g) == add(S, g)

\* Mutant: a node that is no longer in <defs> is re-created, not re-attached.
ResolveDom_Recreate(S, g) ==
    LET gr == S.gradients[g] IN
    IF gr._dom # NoDom /\ contains(S, gr._dom)
    THEN [st |-> S, dom |-> gr._dom]
    ELSE add(S, g)

\* Mutant: an existing node is brought up to date with the descriptor.
ResolveDom_Sync(S, g) ==
    LET gr == S.gradients[g] IN
    IF gr._dom # NoDom
    THEN LET S1 == updateDom(S, g, gr._dom) IN
         [st  |-> IF ~contains(S1, gr._dom) THEN addDom(S1, gr._dom) ELSE S1,
          dom |-> gr._dom]
    ELSE add(S, g)

\* "Create dom in <defs> if not exists"
ResolveDom(S, g) ==
    LET gr == S.gradients[g] IN
    IF gr._dom # NoDom
    THEN [st  |-> IF ~contains(S, gr._dom) THEN addDom(S, gr._dom) ELSE S,
          dom |-> gr._dom]
    ELSE add(S, g)

\* Mutant: the slot is bound without marking the element's nodes used.
BindSlot_NoMark(S, e, slot) ==
    IF ~IsGradientSlot(S, e, slot) THEN S
    ELSE LET res == ResolveDom(S, Style[e][slot])
         IN  [res.st EXCEPT !.attrs[e][slot] = Url(res.st.doms[res.dom].id)]

\* the body of the zrUtil.each callback, for one of 'fill', 'stroke'
BindSlot(S, e, slot) ==
    IF ~IsGradientSlot(S, e, slot) THEN S
    ELSE LET res == ResolveDom(S, Style[e][slot])
             S2  == markUsed(res.st, e)
         IN  [S2 EXCEPT !.attrs[e][slot] = Url(S2.doms[res.dom].id)]

addWithoutUpdate(S, e) == BindSlot(BindSlot(S, e, Slots[1]), e, Slots[2])

\* ---------------------------------------------------------------- actions
InBounds(S) == Len(S.doms) <= MaxDoms

Commit(S) ==
    /\ InBounds(S)
    /\ gradients' = S.gradients
    /\ doms' = S.doms
    /\ defs' = S.defs
    /\ used' = S.used
    /\ nextId' = S.nextId
    /\ attrs' = S.attrs

Init ==
    /\ gradients = [g \in Gradients |-> Descriptor(InitialContent(g), NoId, NoDom)]
    /\ doms = <<>>
    /\ defs = <<>>
    /\ used = {}
    /\ nextId \in FirstIds
    /\ attrs = [e \in Elements |-> [fill |-> NoAttr, stroke |-> NoAttr]]

AddWithoutUpdate(e) == Commit(addWithoutUpdate(Cur, e))

Add(g) == Commit(add(Cur, g).st)

Update(g) == Commit(update(Cur, g))

MarkUsed(e) == Commit(markUsed(Cur, e))

MarkAllUnused == Commit(markAllUnused(Cur))

RemoveUnused == Commit(removeUnused(Cur))

\* the application edits a descriptor in place: id and _dom stay
Edit(g) ==
    \E c \in Contents :
        LET gr == Descriptor(c, gradients[g].id, gradients[g]._dom) IN
        /\ gr # gradients[g]
        /\ Commit([Cur EXCEPT !.gradients[g] = gr])

Next ==
    \/ \E e \in Elements : AddWithoutUpdate(e)
    \/ \E g \in Gradients : Add(g)
    \/ \E g \in Gradients : Update(g)
    \/ \E e \in Elements : MarkUsed(e)
    \/ MarkAllUnused
    \/ RemoveUnused
    \/ \E g \in Editable : Edit(g)

Spec == Init /\ [][Next]_vars

TypeOK ==
    /\ Attached(Cur) \subseteq 1..Len(doms)
    /\ Cardinality(Attached(Cur)) = Len(defs)
    /\ used \subseteq 1..Len(doms)
    /\ \A g \in Gradients : gradients[g]._dom \in 0..Len(doms)

\* ------------------------------------------------------------ vocabulary
\* the kinds Linear and Radial, and a paint slot holding such a descriptor
Legal(t) == t \in {"linear", "radial"}
LegalSlot(e, s) == Legal(gradients[Style[e][s]].type)
\* the tag of the node of a Linear, and of a Radial, descriptor
TagFor(t) == IF t = "linear" THEN "linearGradient" ELSE "radialGradient"

\* the nodes in <defs> that were created for descriptor g
NodesOf(S, g) == {d \in Attached(S) : S.doms[d].owner = g}

\* the paint slots, and the elements, that hold descriptor g
HolderSlots(g) == {p \in Elements \X SlotNames : Style[p[1]][p[2]] = g}
HolderElements(g) == {e \in Elements : \E s \in SlotNames : Style[e][s] = g}

\* every order in which the elements of Es can be taken
Orders(Es) ==
    {q \in [1..Cardinality(Es) -> Es] :
        \A i, j \in 1..Cardinality(Es) : q[i] = q[j] => i = j}

OtherSlot(s) == IF s = "fill" THEN "stroke" ELSE "fill"

RECURSIVE BindAll(_, _, _)
\* addWithoutUpdate for q[i], q[i+1], ...
BindAll(S, q, i) ==
    IF i > Cardinality(DOMAIN q) THEN S
    ELSE BindAll(addWithoutUpdate(S, q[i]), q, i + 1)

RECURSIVE BindMarkAll(_, _, _)
\* addWithoutUpdate then markUsed for q[i], q[i+1], ...
BindMarkAll(S, q, i) ==
    IF i > Cardinality(DOMAIN q) THEN S
    ELSE BindMarkAll(markUsed(addWithoutUpdate(S, q[i]), q[i]), q, i + 1)

\* one mark/sweep cycle in which the elements of q are painted
Cycle(S, q) == removeUnused(BindMarkAll(markAllUnused(S), q, 1))

GeometryMatches(dom, gr) ==
    IF gr.type = "linear"
    THEN dom.x1 = gr.x /\ dom.y1 = gr.y /\ dom.x2 = gr.x2 /\ dom.y2 = gr.y2
    ELSE dom.cx = gr.x /\ dom.cy = gr.y /\ dom.r = gr.r

\* one stop per entry of colorStops, in order
ExpectedStops(gr) ==
    [i \in 1..Len(gr.colorStops) |->
        [offset |-> <<gr.colorStops[i].offset * 100, "%">>,
         stopColor |-> gr.colorStops[i].color]]

\* ------------------------------------------------------------------ C1
\* C1 (sharing): when a Linear or Radial descriptor is held by several paint
\* slots, then after addWithoutUpdate has run for each element holding it,
\* in any order, <defs> holds exactly one node of that descriptor and each
\* of those paint attributes is url(#zr-gradient-<id>).
C1_Sharing ==
    \A g \in Gradients :
        (Legal(gradients[g].type) /\ Cardinality(HolderSlots(g)) >= 2) =>
            \A q \in Orders(HolderElements(g)) :
                LET S == BindAll(Cur, q, 1) IN
                /\ Cardinality(NodesOf(S, g)) = 1
                /\ \A p \in HolderSlots(g) :
                       S.attrs[p[1]][p[2]] = Url(GradientName(S.gradients[g].id))

\* ------------------------------------------------------------------ C2
\* C2 (idempotence): addWithoutUpdate twice in a row on an element yields the
\* same bound nodes, names and paint attributes both times; the second call
\* creates no node, allocates no id and leaves <defs> as it was.
C2_Idempotent ==
    [](
      \A e \in Elements :
          LET S1 == addWithoutUpdate(Cur, e)
              S2 == addWithoutUpdate(S1, e)
          IN  /\ \A s \in SlotNames :
                     /\ SlotDom(S2, e, s) = SlotDom(S1, e, s)
                     /\ SlotDom(S1, e, s) # NoDom =>
                            S2.doms[SlotDom(S2, e, s)].id = S1.doms[SlotDom(S1, e, s)].id
              /\ S2.attrs[e] = S1.attrs[e]
              /\ Len(S2.doms) = Len(S1.doms)
              /\ S2.nextId = S1.nextId
              /\ S2.defs = S1.defs
    )

\* an element has been bound: both its slots carry a reference, and binding
\* it again is the second call of the claim
C2_Witness ==
    \E e \in Elements :
        /\ \A s \in SlotNames : LegalSlot(e, s) /\ attrs[e][s] # NoAttr
        /\ Style[e]["fill"] # Style[e]["stroke"]
        /\ addWithoutUpdate(Cur, e) = Cur

\* ------------------------------------------------------------------ C3
\* C3 (identity stability): once a descriptor has an id, no operation
\* changes it.
C3_IdentityStable ==
    [][\A g \in Gradients :
          gradients[g].id # NoId => gradients'[g].id = gradients[g].id]_vars

\* ------------------------------------------------------------------ C4
\* the descriptor's node is attached and its type is now the other legal one
KindSwitched(S, g) ==
    LET gr == S.gradients[g] IN
    /\ gr._dom \in Attached(S)
    /\ Legal(gr.type)
    /\ S.doms[gr._dom].tagName # TagFor(gr.type)

\* C4 (kind switch): when a descriptor's node is attached and its type has
\* been changed to the other legal type, update detaches the old node,
\* attaches exactly one new node, of the new tag, whose geometry is the
\* descriptor's, and binds the descriptor to it.
C4_KindSwitch ==
    [](
      \A g \in Gradients :
          KindSwitched(Cur, g) =>
              LET old == gradients[g]._dom
                  S   == update(Cur, g)
                  new == S.gradients[g]._dom
              IN  /\ old \notin Attached(S)
                  /\ Attached(S) \ Attached(Cur) = {new}
                  /\ new # old
                  /\ S.doms[new].tagName = TagFor(gradients[g].type)
                  /\ GeometryMatches(S.doms[new], gradients[g])
                  /\ Len(S.doms) = Len(doms) + 1
    )

\* a linear node is attached for a descriptor that is now radial, and update
\* can replace it
C4_Witness ==
    \E g \in Gradients :
        /\ KindSwitched(Cur, g)
        /\ gradients[g].type = "radial"
        /\ doms[gradients[g]._dom].tagName = "linearGradient"
        /\ InBounds(update(Cur, g))

\* ------------------------------------------------------------------ C5
\* C5 (mark/sweep): in a cycle that paints (binds and marks) the elements of
\* q and no others, the node of every Linear or Radial descriptor held by a
\* painted element is attached after the sweep, and a descriptor that no
\* painted element holds has no node in <defs> after the sweep.
C5_MarkSweep ==
    [](
      \A Es \in SUBSET Elements :
          \A q \in Orders(Es) :
              LET S == Cycle(Cur, q) IN
              \A g \in Gradients :
                  /\ (Legal(gradients[g].type) /\ HolderElements(g) \cap Es # {})
                         => S.gradients[g]._dom \in Attached(S)
                  /\ HolderElements(g) \cap Es = {} => NodesOf(S, g) = {}
    )

\* descriptor 1 was marked through an element and kept its node, while the
\* node of descriptor 2, which nobody marked, was swept
C5_Witness ==
    /\ gradients[1]._dom \in Attached(Cur) \cap used
    /\ gradients[2]._dom # NoDom
    /\ gradients[2]._dom \notin Attached(Cur) \cup used

\* ------------------------------------------------------------------ C6
\* what C6 says of every slot but the diagnostic: a slot whose descriptor is
\* of an illegal type gets no node and no attribute write, and the other
\* slot of the element, when legal, is bound
SkipsIllegal(S, e, s) ==
    LET g  == Style[e][s]
        o  == OtherSlot(s)
        go == Style[e][o]
    IN  /\ S.gradients[g] = gradients[g]
        /\ \A d \in (Len(doms) + 1)..Len(S.doms) : S.doms[d].owner # g
        /\ S.attrs[e][s] = attrs[e][s]
        /\ LegalSlot(e, o) =>
               /\ S.gradients[go]._dom \in Attached(S)
               /\ S.attrs[e][o] = Url(S.doms[S.gradients[go]._dom].id)

\* C6 as claimed (unknown kind skip): ... and addWithoutUpdate logs a single
\* diagnostic for the slot.
C6_SkipLogsOnce ==
    \A e \in Elements : \A s \in SlotNames :
        ~LegalSlot(e, s) =>
            LET S == addWithoutUpdate(Cur, e) IN
            SkipsIllegal(S, e, s) /\ S.logs = 1

\* C6 as amended: ... and addWithoutUpdate logs nothing for the slot: the
\* type is tested before add is called.
C6_SkipSilently ==
    [](
      \A e \in Elements : \A s \in SlotNames :
          ~LegalSlot(e, s) =>
              LET S == addWithoutUpdate(Cur, e) IN
              SkipsIllegal(S, e, s) /\ S.logs = 0
    )

\* element 2 holds an illegal descriptor that has a node, and a legal one
\* that binding attaches
C6_Witness ==
    /\ ~LegalSlot(2, "fill")
    /\ LegalSlot(2, "stroke")
    /\ gradients[1]._dom # NoDom
    /\ gradients[2]._dom \notin Attached(Cur)
    /\ InBounds(addWithoutUpdate(Cur, 2))

\* ------------------------------------------------------------------ C7
\* C7 (at most one node per descriptor): in every reachable state <defs>
\* holds at most one node of each descriptor.
C7_AtMostOneNode ==
    \A g \in Gradients : Cardinality(NodesOf(Cur, g)) <= 1

\* ------------------------------------------------------------------ C8
\* C8 as claimed: addWithoutUpdate leaves the used marks as they were.
C8_BindMarksNothing ==
    \A e \in Elements : addWithoutUpdate(Cur, e).used = used

\* C8 as amended: addWithoutUpdate marks used the nodes of the element's fill
\* and stroke descriptors when one of the slots is Linear or Radial, and
\* changes no other mark; add and update change no mark.
C8_BindMarksElement ==
    [](
      /\ \A e \in Elements :
             LET S == addWithoutUpdate(Cur, e) IN
             S.used = used \cup
                 (IF \E s \in SlotNames : LegalSlot(e, s)
                  THEN {SlotDom(S, e, s) : s \in SlotNames} \ {NoDom}
                  ELSE {})
      /\ \A g \in Gradients :
             add(Cur, g).st.used = used /\ update(Cur, g).used = used
    )

\* element 2 has been bound (element 1 never was) and exactly its two nodes
\* are marked used
C8_Witness ==
    /\ \A s \in SlotNames : LegalSlot(2, s) /\ attrs[2][s] # NoAttr
    /\ attrs[1]["fill"] = NoAttr
    /\ used = {gradients[1]._dom, gradients[2]._dom}
    /\ used \subseteq Attached(Cur)
    /\ addWithoutUpdate(Cur, 2) = Cur

C10_StopOrder ==
    [](
      \A g \in Gradients :
          Legal(gradients[g].type) =>
              /\ \A d \in 1..Len(doms) :
                     updateDom(Cur, g, d).doms[d].children = ExpectedStops(gradients[g])
              /\ LET res == add(Cur, g) IN
                     res.st.doms[res.dom].children = ExpectedStops(gradients[g])
              /\ LET S == update(Cur, g) IN
                     S.doms[S.gradients[g]._dom].children = ExpectedStops(gradients[g])
    )

\* an attached node of the descriptor's type that carries the three stops of
\* an earlier sync while the descriptor now has two
C10_Witness ==
    \E g \in Gradients :
        LET gr == gradients[g] IN
        /\ gr._dom \in Attached(Cur)
        /\ Legal(gr.type)
        /\ doms[gr._dom].tagName = TagFor(gr.type)
        /\ Len(doms[gr._dom].children) = 3
        /\ Len(gr.colorStops) = 2

\* ----------------------------------------------------------------- C11
\* the gradientUnits value that goes with the descriptor's global flag
UnitsFor(gr) == IF gr.global THEN "userSpaceOnUse" ELSE "objectBoundingBox"

\* C11 (coordinate-space flag): after updateDom on a Linear or Radial
\* descriptor the node's gradientUnits is userSpaceOnUse if and only if
\* the descriptor's global flag is true and objectBoundingBox otherwise;
\* an update after the flag was flipped replaces the earlier value.
C11_GradientUnits ==
    [](
      \A g \in Gradients :
          Legal(gradients[g].type) =>
              /\ \A d \in 1..Len(doms) :
                     LET u == updateDom(Cur, g, d).doms[d].gradientUnits IN
                     /\ u = UnitsFor(gradients[g])
                     /\ u = "userSpaceOnUse" <=> gradients[g].global
              /\ LET S == update(Cur, g) IN
                     S.doms[S.gradients[g]._dom].gradientUnits = UnitsFor(gradients[g])
    )

\* the flag was flipped to true after a sync wrote objectBoundingBox on the
\* attached node, which update will refresh in place
C11_Witness ==
    \E g \in Gradients :
        LET gr == gradients[g] IN
        /\ gr._dom \in Attached(Cur)
        /\ Legal(gr.type)
        /\ doms[gr._dom].tagName = TagFor(gr.type)
        /\ gr.global
        /\ doms[gr._dom].gradientUnits = "objectBoundingBox"
        /\ update(Cur, g).doms[gr._dom].gradientUnits = "userSpaceOnUse"

\* ----------------------------------------------------------------- C12
\* the descriptor's node is attached and its tag is that of its type
InPlaceCase(S, g) ==
    LET gr == S.gradients[g] IN
    /\ gr._dom \in Attached(S)
    /\ Legal(gr.type)
    /\ S.doms[gr._dom].tagName = TagFor(gr.type)

\* C12 (same-kind refresh is in place): update on a descriptor whose node
\* is attached and of the tag of its type keeps the same node, its name and
\* its place in <defs>, creates and detaches no node, allocates no id, and
\* rewrites only that node's geometry, gradientUnits and stop children.
C12_InPlace ==
    [](
      \A g \in Gradients :
          InPlaceCase(Cur, g) =>
              LET d == gradients[g]._dom
                  S == update(Cur, g)
              IN  /\ S.gradients = gradients
                  /\ S.defs = defs
                  /\ S.nextId = nextId
                  /\ S.used = used
                  /\ S.attrs = attrs
                  /\ Len(S.doms) = Len(doms)
                  /\ \A o \in 1..Len(doms) : o # d => S.doms[o] = doms[o]
                  /\ S.doms[d].id = doms[d].id
                  /\ S.doms[d].id = GradientName(gradients[g].id)
                  /\ S.doms[d].tagName = doms[d].tagName
                  /\ S.doms[d] =
                         [doms[d] EXCEPT
                             !.x1 = S.doms[d].x1, !.y1 = S.doms[d].y1,
                             !.x2 = S.doms[d].x2, !.y2 = S.doms[d].y2,
                             !.cx = S.doms[d].cx, !.cy = S.doms[d].cy,
                             !.r = S.doms[d].r,
                             !.gradientUnits = S.doms[d].gradientUnits,
                             !.children = S.doms[d].children]
                  /\ GeometryMatches(S.doms[d], gradients[g])
    )

\* a descriptor edited since the last sync, kind unchanged: update rewrites
\* its attached node
C12_Witness ==
    \E g \in Gradients :
        /\ InPlaceCase(Cur, g)
        /\ ~GeometryMatches(doms[gradients[g]._dom], gradients[g])
        /\ update(Cur, g).doms # doms

SweptNow(g) ==
    /\ gradients[g]._dom \in Attached(Cur)
    /\ gradients[g]._dom \notin Attached(removeUnused(Cur))

C15_IdAllocation ==
    /\ \A g \in Gradients :
           LET S == add(Cur, g).st IN
           /\ gradients[g].id # NoId =>
                  S.gradients[g].id = gradients[g].id /\ S.nextId = nextId
           /\ (gradients[g].id = NoId /\ Legal(gradients[g].type)) =>
                  /\ S.gradients[g].id = nextId
                  /\ S.nextId = nextId + 1
                  /\ \A h \in Gradients : gradients[h].id < S.gradients[g].id
           /\ gradients[g].id < nextId
    /\ \A g, h \in Gradients :
           (g # h /\ gradients[g].id # NoId) => gradients[g].id # gradients[h].id

\* ----------------------------------------------------------------- C16
\* C16 (updateDom on an illegal type): updateDom on a descriptor whose type
\* is neither linear nor radial logs one diagnostic and changes nothing
\* else: no attribute of the node, not its stop children, and not the
\* descriptor's _dom.
C16_IllegalSyncNoop ==
    [](
      \A g \in Gradients :
          ~Legal(gradients[g].type) =>
              \A d \in 1..Len(doms) :
                  LET S == updateDom(Cur, g, d) IN
                  /\ S.logs = 1
                  /\ S.doms = doms
                  /\ S.gradients = gradients
                  /\ [S EXCEPT !.logs = 0] = Cur
    )

\* a descriptor of an illegal type, and a node with stop children that is
\* not the descriptor's own
C16_Witness ==
    \E g \in Gradients : \E d \in 1..Len(doms) :
        /\ ~Legal(gradients[g].type)
        /\ doms[d].children # <<>>
        /\ gradients[g]._dom # d
        /\ updateDom(Cur, g, d).logs = 1

RefersToBound(S, e, s) ==
    LET d == S.gradients[Style[e][s]]._dom IN
    /\ d \in Attached(S)
    /\ S.attrs[e][s] = Url(S.doms[d].id)

\* C18 (paint reference integrity): the reference addWithoutUpdate writes
\* names the descriptor's bound node, which is in <defs>, and every update
\* of the descriptor while its type is Linear or Radial, kind changes
\* included, keeps it so without the element being bound again.
C18_PaintReference ==
    \A e \in Elements : \A s \in SlotNames :
        LegalSlot(e, s) =>
            /\ RefersToBound(addWithoutUpdate(Cur, e), e, s)
            /\ RefersToBound(Cur, e, s) =>
                   RefersToBound(update(Cur, Style[e][s]), e, s)

\* ----------------------------------------------------------------- C19
\* C19 (unique node names): in every reachable state no two nodes in <defs>
\* carry the same name zr-gradient-<id>.
C19_UniqueNames ==
    \A d1, d2 \in Attached(Cur) : doms[d1].id = doms[d2].id => d1 = d2
====
